---- MODULE Spec2Model ----
(***************************************************************************)
(* TikCoin: the contract invocation pipeline of the Stellar/Soroban        *)
(* client code.  One invocation at a time is followed from its call to     *)
(* the value it returns or the error it throws.  Every action is one       *)
(* synchronous segment of an async function (the code between two awaits); *)
(* the network service and the wallet extension answer nondeterministically*)
(* within the closed sets below.  Counters named calls.* and the sequence  *)
(* stages are history variables: they record what the invocation did.      *)
(***************************************************************************)
EXTENDS Integers, Sequences, FiniteSets, TLC

\* ------------------------------------------------------------------ bounds
\* Longest scripted sequence of get-transaction answers, and the largest
\* number of status queries followed in one invocation.
MaxPolls == 3
\* Largest relative time bound (seconds) of a signed envelope handed to execute.
MaxTimeBound == 2
\* Longest time (seconds) a simulate-transaction round trip takes.
MaxLatency == 1

\* --------------------------------------------------------- program constants
DEFAULT_FEE == 100
TX_TIMEOUT == 30
\* setTimeout(resolve, 1000): seconds slept before each status query.
POLL_INTERVAL == 1
\* TimeoutInfinite of the SDK: a maxTime of 0 means "no upper time bound".
TimeoutInfinite == 0

Undefined == "undefined"
\* An absent numeric option (fee, timeout).
UndefinedNum == -1
TxHash == "txhash"

\* Statuses get-transaction may answer; "THROW" stands for a transport
\* exception raised by the awaited call instead of an answer.
GetStatuses == {"PENDING", "SUCCESS", "FAILED", "NOT_FOUND"}
GetAnswers == GetStatuses \cup {"THROW"}
\* Immediate answers of send-transaction.
SendAnswers == {"PENDING", "DUPLICATE", "TRY_AGAIN_LATER", "ERROR", "THROW"}

Scripts == UNION {[1..n -> GetAnswers] : n \in 1..MaxPolls}

\* Wire values (ScVal) a transaction may return: none, a decodable one, and
\* one whose tag scValToNative does not know.
NoVal == [tag |-> "none", val |-> Undefined]
ScValTags == {"scvU32", "scvString", "scvVec", "scvMap"}
ReturnValues == {NoVal, [tag |-> "scvString", val |-> "T1"], [tag |-> "scvBogus", val |-> "x"]}

\* Return values of the query entry points, with the JavaScript type of each
\* element when the value is a vector, and its id field: a vector of listings (empty, or of
\* maps), a vector with a number in it, a single map, a number, and a value
\* scValToNative does not know.
NoQVal == [tag |-> "none", val |-> Undefined, elems |-> <<>>, ids |-> <<>>]
QueryValues ==
  {[tag |-> "scvVec", val |-> "[]", elems |-> <<>>, ids |-> <<>>],
   [tag |-> "scvVec", val |-> "[L1,L2]", elems |-> <<"object", "object">>, ids |-> <<"L1", "L2">>],
   [tag |-> "scvVec", val |-> "[L1,7]", elems |-> <<"object", "number">>, ids |-> <<"L1", "7">>],
   [tag |-> "scvMap", val |-> "L1", elems |-> <<>>, ids |-> <<>>],
   [tag |-> "scvU32", val |-> "7", elems |-> <<>>, ids |-> <<>>],
   [tag |-> "scvBogus", val |-> "x", elems |-> <<>>, ids |-> <<>>]}

\* Array.isArray and (x && typeof x === 'object') of the decoded value.
IsArray(v) == v.tag = "scvVec"
IsObject(v) == v.tag \in {"scvVec", "scvMap"}

ScValThrows(v) == v.tag \notin ScValTags
scValToNative(v) == v.val

\* ------------------------------------------------------------------- state
VARIABLES
  pc,           \* position of the running invocation ("idle" when none runs)
  op,           \* the operation invoked
  net,          \* what the network service will answer: script, retval
  envelope,     \* the envelope being submitted / produced
  options,      \* TxOptions passed by the caller
  now,          \* clock, in seconds since the invocation started
  sendResponse, \* status and hash of the send-transaction answer
  lastStatus,   \* status of the latest get-transaction answer
  outcome,      \* what the invocation returned or threw
  calls,        \* history: number of send / get / simulate / sign calls issued
  stages,       \* history: pipeline stages the invocation went through
  simResult,    \* SimulationResponse held by the invocation
  signAnswer,   \* what the wallet answered to signTransaction
  cancel,       \* caller-side cancellation: requested flag, queries issued after it
  client,       \* the ContractClient's own fields: contractId, networkConfig
  earlier,      \* history: the ContractClient method completed last on this client
  sorobanClient,\* the module-level singleton of client.ts: the endpoint it points to
  profile,      \* the endpoint and network identifier the running invocation uses
  codec,        \* the value-encoding run: implementation, inputs, arguments built
  wallet        \* the wallet provider's state, the extension's state and the calls in flight

vars == <<pc, op, net, envelope, options, now, sendResponse, lastStatus, outcome, calls,
          stages, simResult, signAnswer, cancel, client, earlier, sorobanClient, profile,
          codec, wallet>>

\* The fields a ContractClient is constructed with, for either contract.
Clients == [contractId : {"tokenContractId", "marketplaceContractId"},
            networkConfig : {"TESTNET"}]

\* ContractError.data: the cause an error carries, by what it is (kind) and
\* what it holds (val); NoData when the error carries none.
NoData == [kind |-> "none", val |-> Undefined]
ErrorData(kind, val) == [kind |-> kind, val |-> val]


NoCalls == [send |-> 0, get |-> 0, sim |-> 0, sign |-> 0, prepare |-> 0]
NoOutcome == [kind |-> "none", successful |-> FALSE, code |-> "NONE", hash |-> Undefined,
              result |-> Undefined, status |-> Undefined, xdr |-> FALSE, data |-> NoData,
              listings |-> <<>>]
NoNet == [script |-> <<"PENDING">>, retval |-> NoVal, sim |-> Undefined, qval |-> NoQVal]
NoEnvelope == [wellFormed |-> TRUE, fee |-> 0, minTime |-> 0, maxTime |-> TimeoutInfinite]
NoOptions == [fee |-> UndefinedNum, timeout |-> UndefinedNum]
NoSim == [hasData |-> FALSE, hasResult |-> FALSE, error |-> "NONE", data |-> NoData]
NoSend == [status |-> Undefined, hash |-> Undefined]
NoCancel == [requested |-> FALSE, getsAfter |-> 0]

\* A value returned to the caller.  successful is the field of that name when
\* the value is a ContractTransactionResult; for the other return types it
\* abbreviates "the value reports success" (true, status SUCCESS, an id).
Returned(successful, code, h, result, status) ==
  [kind |-> "returned", successful |-> successful, code |-> code, hash |-> h,
   result |-> result, status |-> status, xdr |-> FALSE, data |-> NoData, listings |-> <<>>]
\* An error thrown to the caller; code is ContractError.code, and "NONE" when
\* the error is a plain Error (or a non-Error value) that carries no code.
Thrown(code) ==
  [kind |-> "thrown", successful |-> FALSE, code |-> code, hash |-> Undefined,
   result |-> Undefined, status |-> Undefined, xdr |-> FALSE, data |-> NoData,
   listings |-> <<>>]

\* The answer of the n-th get-transaction round trip: the script's n-th entry,
\* and the script's last entry from then on.
NetGet(n) == IF n <= Len(net.script) THEN net.script[n] ELSE net.script[Len(net.script)]

\* How many entries of seq equal x.
CountOf(seq, x) == Cardinality({i \in 1..Len(seq) : seq[i] = x})

\* The function-style operations that sign and send on their own, and those
\* that go through prepareTransaction, signWithFreighter and submitTransaction.
DirectOps == {"D.createCreatorToken", "D.buyCreatorTokens", "D.sellCreatorTokens",
              "D.listTokensOnMarketplace", "D.buyTokensFromMarketplace",
              "D.cancelMarketplaceListing"}
LegacyOps == {"L.createCreatorToken", "L.buyCreatorTokens", "L.sellCreatorTokens",
              "L.listTokenForSale", "L.buyTokenFromMarketplace", "L.cancelListing"}

\* The methods of the ContractClient class.
ClientOps == {"simulateTransaction", "prepareTransaction", "executeTransaction"}

\* The endpoints of the two networks, and the endpoint of a network identifier.
RpcUrls == {"TESTNET_RPC_URL", "MAINNET_RPC_URL"}
NetworkRpcUrl(network) == IF network = "TESTNET" THEN "TESTNET_RPC_URL" ELSE "MAINNET_RPC_URL"

NoProfile == [rpcUrl |-> Undefined, networkId |-> Undefined]

\* getSorobanClient(): the singleton, initialised for the test network when
\* it is not set yet.
getSorobanClient == IF sorobanClient = Undefined THEN NetworkRpcUrl("TESTNET") ELSE sorobanClient

\* The endpoint and the network identifier (passphrase) operation o works
\* with: a function-style operation takes the singleton and signs for
\* Networks.TESTNET; every other one derives both from one network value.
ProfileOf(o) ==
  IF o \in DirectOps
    THEN [rpcUrl |-> getSorobanClient, networkId |-> "TESTNET"]
    ELSE [rpcUrl |-> NetworkRpcUrl(client.networkConfig), networkId |-> client.networkConfig]

\* The state of a freshly called operation o: nothing issued yet.
Fresh(o) ==
  /\ op' = o
  /\ now' = 0
  /\ sendResponse' = NoSend
  /\ lastStatus' = Undefined
  /\ signAnswer' = Undefined
  /\ cancel' = NoCancel
  /\ sorobanClient' = IF o \in DirectOps THEN getSorobanClient ELSE sorobanClient
  /\ profile' = ProfileOf(o)

\* ------------------------------------------------------------ value encoding
\* Largest price drawn, in hundred-millionths of a unit, and largest amount
\* drawn beyond 64 bits, in multiples of 2^64 units.
MaxFine == 30
MaxWords == 1

\* The literal 10000000 the monetary arguments are multiplied by, and the
\* number of hundred-millionths in one ten-millionth.
STROOPS == 10000000
FinePerStroop == 10
FinePerUnit == FinePerStroop * STROOPS

\* A JavaScript number or decimal string: words * 2^64 + fine / 10^8.  The
\* values drawn are those for which the double product with 10000000 is the
\* exact product: |fine| small or a whole number of units, or a multiple of
\* 2^64 alone.
Decimal(words, fine) == [words |-> words, fine |-> fine]
NoDec == Decimal(0, 0)
Decimals ==
  {Decimal(0, f) : f \in (-MaxFine..MaxFine) \cup {25 * STROOPS}}
    \cup {Decimal(w, 0) : w \in 1..MaxWords}
IsWhole(d) == d.fine % FinePerUnit = 0

\* An integer too wide for the model checker's arithmetic: w * 2^64 + u.
Big(w, u) == [w |-> w, u |-> u]
BigZero == Big(0, 0)

\* Math.floor(x * 10000000).
MathFloorScaled(x) == Big(x.words * STROOPS, x.fine \div FinePerStroop)

\* The ScVal constructors the sources use.  str holds the text of a string or
\* an address, dec the number a decimal string spells, hi and lo the fields
\* of Int128Parts.
ScVal(type, str, dec, hi, lo) == [type |-> type, str |-> str, dec |-> dec, hi |-> hi, lo |-> lo]
AddressToScVal(a) == ScVal("scvAddress", a, NoDec, 0, BigZero)
scvString(s) == ScVal("scvString", s, NoDec, 0, BigZero)
scvI128(hi, lo) == ScVal("scvI128", "", NoDec, hi, lo)
EncodingThrows == ScVal("throws", "", NoDec, 0, BigZero)

\* Native strings: a plain text, or the decimal spelling of a number.
Text(s) == [str |-> s, dec |-> NoDec, numeric |-> FALSE]
DecimalString(d) == [str |-> "", dec |-> d, numeric |-> TRUE]

\* nativeToScVal(value, {type}) of a string value: with type i128 the string
\* goes through BigInt, which takes integer literals only; with type string
\* or no type the value becomes an scvString of the same text.
nativeToScVal(value, type) ==
  IF type = "i128"
    THEN IF value.numeric /\ IsWhole(value.dec) /\ value.dec.words = 0
           THEN scvI128(0, Big(0, value.dec.fine \div FinePerUnit))
           ELSE EncodingThrows
    ELSE ScVal("scvString", value.str, value.dec, 0, BigZero)

\* ContractClient.toScVal.
toScVal(value, type) == nativeToScVal(value, type)

\* The arguments of buy_tokens, by implementation.
BuyImpls == {"part_000", "contractClient", "part_002"}
BuyTokensArgs(impl, caller, tokenId, amount, maxPrice) ==
  IF impl = "part_002"
    THEN <<nativeToScVal(Text(tokenId), "string"),
           nativeToScVal(DecimalString(Decimal(0, amount * FinePerUnit)), "i128"),
           nativeToScVal(DecimalString(maxPrice), "i128")>>
    ELSE <<AddressToScVal(caller), scvString(tokenId), scvI128(0, Big(0, amount)),
           scvI128(0, MathFloorScaled(maxPrice))>>

\* The arguments of list_token / list_tokens, by implementation.
ListImpls == {"MarketplaceOperations", "part_002", "part_000"}
ListMethod(impl) == IF impl = "part_000" THEN "list_tokens" ELSE "list_token"
ListTokenArgs(impl, seller, tokenId, amount, price) ==
  CASE impl = "MarketplaceOperations" ->
         <<toScVal(Text(tokenId), "none"),
           toScVal(DecimalString(Decimal(0, amount * FinePerUnit)), "none"),
           toScVal(DecimalString(price), "none")>>
    [] impl = "part_002" ->
         <<nativeToScVal(Text(tokenId), "string"),
           nativeToScVal(DecimalString(Decimal(0, amount * FinePerUnit)), "i128"),
           nativeToScVal(DecimalString(price), "i128")>>
    [] OTHER ->
         <<AddressToScVal(seller), scvString(tokenId), scvI128(0, Big(0, amount)),
           scvI128(0, MathFloorScaled(price))>>

\* The arguments of create_token.
CreateTokenArgs(source, name, description, initialPrice, slope, creatorFee) ==
  <<AddressToScVal(source), scvString(name), scvString(description),
    scvI128(0, MathFloorScaled(initialPrice)),
    scvI128(0, MathFloorScaled(slope)),
    scvI128(0, MathFloorScaled(creatorFee))>>

\* The inputs of a value-encoding run and the run itself.
CodecInputs == [caller : {"GA"}, tokenId : {"T1"}, amount : {1, 10}, price : Decimals]
NoInput == [caller |-> "GA", tokenId |-> "T1", amount |-> 1, price |-> NoDec]
CodecRun(impl, method, in, args) == [impl |-> impl, method |-> method, in |-> in, args |-> args]

\* No value-encoding run.
NoCodec == CodecRun("none", "none", NoInput, <<>>)

\* ------------------------------------------------------- wallet connection
\* How many wallet calls may be in flight at once.
MaxFlows == 2
Slots == 1..MaxFlows

\* What the extension holds: whether it is installed, unlocked for this site
\* (isConnected) and whether the site is on its allow list (isAllowed).
Extensions == [installed : BOOLEAN, connected : BOOLEAN, allowed : BOOLEAN]

\* The calls that can be in flight: WalletProvider.connect (which awaits
\* connectWallet), WalletProvider.requestPermission, the provider's
\* checkWalletStatus effect and checkWalletConnection.
FlowKinds == {"connect", "requestPermission", "checkWalletStatus", "checkWalletConnection"}

\* A call in flight: where it waits, what isConnected and isAllowed answered
\* to it ("unknown" before the answer), and how often it asked for the key.
NoFlow == [kind |-> "none", pc |-> "idle", connected |-> "unknown", allowed |-> "unknown",
           keyCalls |-> 0]
Answered(b) == IF b THEN "yes" ELSE "no"

\* How the call completed last ended: the publicKey of the WalletData it
\* returned (or that it threw), what isConnected and isAllowed had answered
\* to it, and how often it had asked for the key.
WalletData(kind, publicKey, connected, allowed, keyCalls) ==
  [kind |-> kind, ended |-> "returned", publicKey |-> publicKey, connected |-> connected,
   allowed |-> allowed, keyCalls |-> keyCalls]
WalletThrew(f) ==
  [kind |-> f.kind, ended |-> "thrown", publicKey |-> "", connected |-> f.connected,
   allowed |-> f.allowed, keyCalls |-> f.keyCalls]
NoWalletData ==
  [kind |-> "none", ended |-> "none", publicKey |-> "", connected |-> "unknown",
   allowed |-> "unknown", keyCalls |-> 0]

\* useState of WalletProvider (publicKey "null" for null), the extension,
\* the calls in flight and what the last call ended with.
NoWallet ==
  [publicKey |-> "null", isConnected |-> FALSE, isAllowed |-> FALSE, isConnecting |-> FALSE,
   error |-> FALSE,
   ext |-> [installed |-> TRUE, connected |-> FALSE, allowed |-> FALSE],
   flows |-> [s \in Slots |-> NoFlow],
   last |-> NoWalletData]

InitProgram ==
  /\ pc = "idle"
  /\ op = "none"
  /\ net = NoNet
  /\ envelope = NoEnvelope
  /\ options = NoOptions
  /\ now = 0
  /\ sendResponse = NoSend
  /\ lastStatus = Undefined
  /\ outcome = NoOutcome
  /\ calls = NoCalls
  /\ stages = <<>>
  /\ simResult = NoSim
  /\ signAnswer = Undefined
  /\ cancel = NoCancel
  /\ client \in Clients
  /\ earlier = "none"
  /\ sorobanClient = Undefined
  /\ profile = NoProfile

Init == InitProgram /\ codec = NoCodec /\ wallet = NoWallet

\* ----------------------------------------- ContractClient.executeTransaction
\* Mutation of ExecPollRequests: a retry loop that sends the envelope again.
ExecPollRequests_Resubmit == <<"sendTransaction", "getTransaction">>

\* The RPC calls one iteration of the poll loop issues after its sleep.
ExecPollRequests == <<"getTransaction">>

\* Mutation of ExecLoopBreaks: the loop waits on NOT_FOUND instead of PENDING.
ExecLoopBreaks_NotFound(status) == status # "NOT_FOUND"

\* Whether the poll loop breaks on a status answer (else it sleeps again).
ExecLoopBreaks(status) == status # "PENDING"

\* Mutation of ExecClassify: every status but FAILED counts as a success.
ExecClassify_SuccessUnlessFailed(status, h, rv) ==
  IF status # "FAILED"
    THEN Returned(TRUE, "NONE", h,
                  IF rv # NoVal /\ ~ScValThrows(rv) THEN scValToNative(rv) ELSE Undefined,
                  status)
    ELSE [Returned(FALSE, "TRANSACTION_FAILED", h, Undefined, status)
            EXCEPT !.data = ErrorData("txResponse", status)]

\* Mutation of ExecClassify: a failure reported without hash and cause.
ExecClassify_DropsCause(status, h, rv) ==
  IF status = "SUCCESS"
    THEN Returned(TRUE, "NONE", h,
                  IF rv # NoVal /\ ~ScValThrows(rv) THEN scValToNative(rv) ELSE Undefined,
                  status)
    ELSE Returned(FALSE, "TRANSACTION_FAILED", Undefined, Undefined, status)

\* The result built from the terminal status answer.  The error of the
\* unsuccessful result carries the whole status response as its data.
ExecClassify(status, h, rv) ==
  IF status = "SUCCESS"
    THEN Returned(TRUE, "NONE", h,
                  IF rv # NoVal /\ ~ScValThrows(rv) THEN scValToNative(rv) ELSE Undefined,
                  status)
    ELSE [Returned(FALSE, "TRANSACTION_FAILED", h, Undefined, status)
            EXCEPT !.data = ErrorData("txResponse", status)]

\* Mutation of ExecEntersPolling: the loop is entered whatever send answered.
ExecEntersPolling_Always(status) == TRUE

\* Whether executeTransaction goes on to poll after the send response.
ExecEntersPolling(status) == status = "PENDING"

\* The result for a send response that does not lead to polling.
ExecSubmissionFailed(status) ==
  [Returned(FALSE, "SUBMISSION_FAILED", Undefined, Undefined, status)
     EXCEPT !.data = ErrorData("sendResponse", status)]

\* catch (e): the result of any exception inside executeTransaction.
\* Mutation of ExecCatch: the exception leaves executeTransaction.
ExecCatch_Rethrows(e) == [Thrown("NONE") EXCEPT !.data = ErrorData("exception", e)]

ExecCatch(e) ==
  [Returned(FALSE, "EXECUTION_FAILED", Undefined, Undefined, Undefined)
     EXCEPT !.data = ErrorData("exception", e)]

\* Mutation of ExecParses: execute needs the envelope this client prepared.
ExecParses_NeedsPrepared(wf, retained) == wf /\ retained = "prepareTransaction"

\* Whether TransactionBuilder.fromXDR accepts the signed XDR.  retained is
\* what the client object went through before; fromXDR gets signedXdr and
\* the passphrase only.
ExecParses(wf, retained) == wf

\* Call: parse the signed XDR and issue send-transaction.
executeTransaction ==
  /\ pc = "idle"
  /\ \E s \in Scripts, rv \in ReturnValues, wf \in BOOLEAN, mt \in 0..MaxTimeBound :
       /\ net' = [script |-> s, retval |-> rv, sim |-> Undefined, qval |-> NoQVal]
       /\ envelope' = [wellFormed |-> wf, fee |-> DEFAULT_FEE, minTime |-> 0, maxTime |-> mt]
       /\ IF ExecParses(wf, earlier)
            THEN /\ pc' = "E_awaitSend"
                 /\ calls' = [NoCalls EXCEPT !.send = 1]
                 /\ stages' = <<"Submitted">>
                 /\ outcome' = NoOutcome
            ELSE /\ pc' = "done"
                 /\ calls' = NoCalls
                 /\ stages' = <<>>
                 /\ outcome' = ExecCatch("fromXDR")
  /\ Fresh("executeTransaction")
  /\ options' = NoOptions
  /\ simResult' = NoSim
  /\ client' = client
  /\ UNCHANGED <<earlier, codec, wallet>>

\* send-transaction answered (or threw).
ExecSendResponse ==
  /\ pc = "E_awaitSend"
  /\ \E a \in SendAnswers :
       CASE a = "THROW" ->
              /\ pc' = "done" /\ outcome' = ExecCatch("sendTransaction")
              /\ sendResponse' = sendResponse
         [] a # "THROW" /\ ExecEntersPolling(a) ->
              /\ pc' = "E_sleep" /\ outcome' = outcome
              /\ sendResponse' = [status |-> a, hash |-> TxHash]
         [] OTHER ->
              /\ pc' = "done"
              /\ sendResponse' = [status |-> a, hash |-> TxHash]
              /\ outcome' = ExecSubmissionFailed(a)
  /\ UNCHANGED <<op, net, envelope, options, now, lastStatus, calls, stages, simResult,
                 signAnswer, cancel>>
  /\ client' = client
  /\ UNCHANGED <<earlier, sorobanClient, profile, codec, wallet>>

\* The 1 s timer fired: the loop body issues its request.
ExecTimer ==
  /\ pc = "E_sleep"
  /\ calls.get < MaxPolls
  /\ pc' = "E_awaitGet"
  /\ now' = now + POLL_INTERVAL
  /\ calls' = [calls EXCEPT !.get = @ + CountOf(ExecPollRequests, "getTransaction"),
                            !.send = @ + CountOf(ExecPollRequests, "sendTransaction")]
  /\ stages' = stages
  /\ cancel' = [cancel EXCEPT !.getsAfter = IF cancel.requested THEN @ + 1 ELSE @]
  /\ UNCHANGED <<op, net, envelope, options, sendResponse, lastStatus, outcome, simResult,
                 signAnswer>>
  /\ client' = client
  /\ UNCHANGED <<earlier, sorobanClient, profile, codec, wallet>>

\* get-transaction answered (or threw).
ExecGetResponse ==
  /\ pc = "E_awaitGet"
  /\ LET a == NetGet(calls.get) IN
       IF a = "THROW"
         THEN /\ pc' = "done" /\ outcome' = ExecCatch("getTransaction")
              /\ lastStatus' = lastStatus
         ELSE /\ lastStatus' = a
              /\ IF ExecLoopBreaks(a)
                   THEN /\ pc' = "done" /\ outcome' = ExecClassify(a, sendResponse.hash, net.retval)
                   ELSE /\ pc' = "E_sleep" /\ outcome' = outcome
  /\ UNCHANGED <<op, net, envelope, options, now, sendResponse, calls, stages, simResult,
                 signAnswer, cancel>>
  /\ client' = client
  /\ UNCHANGED <<earlier, sorobanClient, profile, codec, wallet>>

\* The caller raises its cancellation signal while execute is in the poll
\* loop.  executeTransaction never reads options, and TxOptions has no field
\* that could carry the signal.
RequestCancel ==
  /\ op = "executeTransaction"
  /\ pc \in {"E_sleep", "E_awaitGet"}
  /\ ~cancel.requested
  /\ cancel' = [cancel EXCEPT !.requested = TRUE]
  /\ UNCHANGED <<pc, op, net, envelope, options, now, sendResponse, lastStatus, outcome,
                 calls, stages, simResult, signAnswer>>
  /\ client' = client
  /\ UNCHANGED <<earlier, sorobanClient, profile, codec, wallet>>

\* ------------------------------------------------- the wallet boundary
\* signTransaction of the wallet extension returns the signed XDR or throws:
\* an Error, or a value that is no Error.
WalletAnswers == {"signed", "declinedError", "declinedOther"}
Declined(a) == a \in {"declinedError", "declinedOther"}

\* Mutation of AfterSign: the wallet's exception is swallowed.
AfterSign_Swallow(a) == "proceed"

\* What an operation does with the wallet's answer: an exception leaves the
\* try block for the catch, which rethrows; a signed XDR goes on.
AfterSign(a) == IF Declined(a) THEN "throw" ELSE "proceed"

\* WalletProvider.handleSignTransaction: call.
handleSignTransaction ==
  /\ pc = "idle"
  /\ pc' = "W_awaitSign"
  /\ Fresh("handleSignTransaction")
  /\ calls' = [NoCalls EXCEPT !.sign = 1]
  /\ outcome' = NoOutcome
  /\ stages' = <<>>
  /\ UNCHANGED <<net, envelope, options, simResult>>
  /\ client' = client
  /\ UNCHANGED <<earlier, codec, wallet>>

\* WalletProvider.handleSignTransaction: the wallet answered.
HandleSignResponse ==
  /\ pc = "W_awaitSign"
  /\ \E a \in WalletAnswers :
       /\ signAnswer' = a
       /\ outcome' = IF AfterSign(a) = "throw"
                       THEN Thrown("NONE")
                       ELSE [Returned(TRUE, "NONE", Undefined, Undefined, Undefined)
                               EXCEPT !.xdr = TRUE]
  /\ pc' = "done"
  /\ UNCHANGED <<op, net, envelope, options, now, sendResponse, lastStatus, calls, stages,
                 simResult, cancel>>
  /\ client' = client
  /\ UNCHANGED <<earlier, sorobanClient, profile, codec, wallet>>

\* ------------------------- direct operations (sign and send, no pipeline)

\* Call: build the operation and ask the network for the source account.
DirectCall ==
  /\ pc = "idle"
  /\ \E o \in DirectOps : Fresh(o)
  /\ pc' = "D_awaitAccount"
  /\ calls' = NoCalls
  /\ outcome' = NoOutcome
  /\ stages' = <<>>
  /\ UNCHANGED <<net, envelope, options, simResult>>
  /\ client' = client
  /\ UNCHANGED <<earlier, codec, wallet>>

\* getAccount answered: build the transaction and ask the wallet to sign it.
DirectAccountResponse ==
  /\ pc = "D_awaitAccount"
  /\ \E ok \in BOOLEAN :
       IF ok
         THEN /\ pc' = "D_awaitSign"
              /\ stages' = Append(stages, "Built")
              /\ calls' = [calls EXCEPT !.sign = @ + 1]
              /\ envelope' = [wellFormed |-> TRUE, fee |-> DEFAULT_FEE, minTime |-> 0,
                              maxTime |-> TimeoutInfinite]
              /\ outcome' = outcome
         ELSE /\ pc' = "done"
              /\ outcome' = Thrown("NONE")
              /\ UNCHANGED <<stages, calls, envelope>>
  /\ UNCHANGED <<op, net, options, now, sendResponse, lastStatus, simResult, signAnswer, cancel>>
  /\ client' = client
  /\ UNCHANGED <<earlier, sorobanClient, profile, codec, wallet>>

\* The wallet answered: rethrow its error, or send the signed transaction.
DirectSignResponse ==
  /\ pc = "D_awaitSign"
  /\ \E a \in WalletAnswers :
       /\ signAnswer' = a
       /\ IF AfterSign(a) = "throw"
            THEN /\ pc' = "done"
                 /\ outcome' = Thrown("NONE")
                 /\ UNCHANGED <<calls, stages>>
            ELSE /\ pc' = "D_awaitSend"
                 /\ calls' = [calls EXCEPT !.send = @ + 1]
                 /\ stages' = Append(stages, "Submitted")
                 /\ outcome' = outcome
  /\ UNCHANGED <<op, net, envelope, options, now, sendResponse, lastStatus, simResult, cancel>>
  /\ client' = client
  /\ UNCHANGED <<earlier, sorobanClient, profile, codec, wallet>>

\* send-transaction answered: the operation returns that answer as it is.
DirectSendResponse ==
  /\ pc = "D_awaitSend"
  /\ \E a \in SendAnswers :
       IF a = "THROW"
         THEN /\ outcome' = Thrown("NONE") /\ sendResponse' = sendResponse
         ELSE /\ sendResponse' = [status |-> a, hash |-> TxHash]
              /\ outcome' = Returned(FALSE, "NONE", TxHash, Undefined, a)
  /\ pc' = "done"
  /\ UNCHANGED <<op, net, envelope, options, now, lastStatus, calls, stages, simResult,
                 signAnswer, cancel>>
  /\ client' = client
  /\ UNCHANGED <<earlier, sorobanClient, profile, codec, wallet>>

\* ---------------------------------------- submitTransaction (send and poll)
\* The operations that read an id out of the transaction's return value.
LegacyIdOps == {"L.createCreatorToken", "L.listTokenForSale"}

\* The RPC calls one iteration of submitTransaction's loop issues after its sleep.
SubmitPollRequests == <<"getTransaction">>

\* Whether submitTransaction's loop goes round again on a status answer.
SubmitLoopContinues(status) == status = "NOT_FOUND"

\* What the calling operation makes of the response submitTransaction returned.
LegacyResult(o, status, rv) ==
  IF o \in LegacyIdOps
    THEN IF status = "SUCCESS" /\ rv # NoVal
           THEN IF ScValThrows(rv)
                  THEN Thrown("NONE")
                  ELSE Returned(TRUE, "NONE", Undefined, scValToNative(rv), status)
           ELSE Thrown("NONE")
    ELSE Returned(status = "SUCCESS", "NONE", Undefined, Undefined, status)

\* The value submitTransaction's caller ends with when it returns a response.
SubmitReturn(o, status, rv) ==
  IF o = "submitTransaction"
    THEN Returned(status = "SUCCESS", "NONE", TxHash, Undefined, status)
    ELSE LegacyResult(o, status, rv)

\* Call of submitTransaction on its own: parse the signed XDR, issue send.
submitTransaction ==
  /\ pc = "idle"
  /\ \E s \in Scripts, rv \in ReturnValues, wf \in BOOLEAN :
       /\ net' = [script |-> s, retval |-> rv, sim |-> Undefined, qval |-> NoQVal]
       /\ envelope' = [wellFormed |-> wf, fee |-> DEFAULT_FEE, minTime |-> 0,
                       maxTime |-> TimeoutInfinite]
       /\ IF wf
            THEN /\ pc' = "S_awaitSend"
                 /\ calls' = [NoCalls EXCEPT !.send = 1]
                 /\ stages' = <<"Submitted">>
                 /\ outcome' = NoOutcome
            ELSE /\ pc' = "done"
                 /\ calls' = NoCalls
                 /\ stages' = <<>>
                 /\ outcome' = Thrown("NONE")
  /\ Fresh("submitTransaction")
  /\ options' = NoOptions
  /\ simResult' = NoSim
  /\ client' = client
  /\ UNCHANGED <<earlier, codec, wallet>>

\* send-transaction answered: throw unless PENDING, else query the status at once.
SubmitSendResponse ==
  /\ pc = "S_awaitSend"
  /\ \E a \in SendAnswers :
       CASE a = "THROW" ->
              /\ pc' = "done" /\ outcome' = Thrown("NONE")
              /\ UNCHANGED <<sendResponse, calls>>
         [] a = "PENDING" ->
              /\ pc' = "S_awaitGet" /\ outcome' = outcome
              /\ sendResponse' = [status |-> a, hash |-> TxHash]
              /\ calls' = [calls EXCEPT !.get = @ + 1]
         [] OTHER ->
              /\ pc' = "done" /\ outcome' = Thrown("NONE")
              /\ sendResponse' = [status |-> a, hash |-> TxHash]
              /\ calls' = calls
  /\ UNCHANGED <<op, net, envelope, options, now, lastStatus, stages, simResult, signAnswer,
                 cancel>>
  /\ client' = client
  /\ UNCHANGED <<earlier, sorobanClient, profile, codec, wallet>>

\* get-transaction answered (or threw).
SubmitGetResponse ==
  /\ pc = "S_awaitGet"
  /\ LET a == NetGet(calls.get) IN
       IF a = "THROW"
         THEN /\ pc' = "done" /\ outcome' = Thrown("NONE") /\ lastStatus' = lastStatus
         ELSE /\ lastStatus' = a
              /\ IF SubmitLoopContinues(a)
                   THEN /\ pc' = "S_sleep" /\ outcome' = outcome
                   ELSE /\ pc' = "done" /\ outcome' = SubmitReturn(op, a, net.retval)
  /\ UNCHANGED <<op, net, envelope, options, now, sendResponse, calls, stages, simResult,
                 signAnswer, cancel>>
  /\ client' = client
  /\ UNCHANGED <<earlier, sorobanClient, profile, codec, wallet>>

\* The 1 s timer fired: the loop body issues its request.
SubmitTimer ==
  /\ pc = "S_sleep"
  /\ calls.get < MaxPolls
  /\ pc' = "S_awaitGet"
  /\ now' = now + POLL_INTERVAL
  /\ calls' = [calls EXCEPT !.get = @ + CountOf(SubmitPollRequests, "getTransaction"),
                            !.send = @ + CountOf(SubmitPollRequests, "sendTransaction")]
  /\ UNCHANGED <<op, net, envelope, options, sendResponse, lastStatus, outcome, stages,
                 simResult, signAnswer, cancel>>
  /\ client' = client
  /\ UNCHANGED <<earlier, sorobanClient, profile, codec, wallet>>

\* ------------------ legacy operations (prepare, sign, submitTransaction)
\* Call: ask the network for the account.
LegacyCall ==
  /\ pc = "idle"
  /\ \E o \in LegacyOps : Fresh(o)
  /\ \E s \in Scripts, rv \in ReturnValues : net' = [script |-> s, retval |-> rv, sim |-> Undefined, qval |-> NoQVal]
  /\ pc' = "L_awaitAccount"
  /\ calls' = NoCalls
  /\ outcome' = NoOutcome
  /\ stages' = <<>>
  /\ UNCHANGED <<envelope, options, simResult>>
  /\ client' = client
  /\ UNCHANGED <<earlier, codec, wallet>>

\* getAccount answered: build the transaction, and have the server prepare it
\* (the SDK's prepareTransaction simulates it and assembles the result).
LegacyAccountResponse ==
  /\ pc = "L_awaitAccount"
  /\ \E ok \in BOOLEAN :
       IF ok
         THEN /\ pc' = "L_awaitPrepare"
              /\ stages' = Append(stages, "Built")
              /\ calls' = [calls EXCEPT !.sim = @ + 1]
              /\ outcome' = outcome
         ELSE /\ pc' = "done"
              /\ outcome' = Thrown("NONE")
              /\ UNCHANGED <<stages, calls>>
  /\ UNCHANGED <<op, net, envelope, options, now, sendResponse, lastStatus, simResult,
                 signAnswer, cancel>>
  /\ client' = client
  /\ UNCHANGED <<earlier, sorobanClient, profile, codec, wallet>>

\* server.prepareTransaction answered: ask the wallet to sign the prepared XDR.
LegacyPrepareResponse ==
  /\ pc = "L_awaitPrepare"
  /\ \E ok \in BOOLEAN :
       IF ok
         THEN /\ pc' = "L_awaitSign"
              /\ stages' = stages \o <<"Simulated", "Prepared">>
              /\ calls' = [calls EXCEPT !.prepare = @ + 1, !.sign = @ + 1]
              /\ envelope' = [wellFormed |-> TRUE, fee |-> DEFAULT_FEE, minTime |-> 0,
                              maxTime |-> TimeoutInfinite]
              /\ outcome' = outcome
         ELSE /\ pc' = "done"
              /\ outcome' = Thrown("NONE")
              /\ UNCHANGED <<stages, calls, envelope>>
  /\ UNCHANGED <<op, net, options, now, sendResponse, lastStatus, simResult, signAnswer, cancel>>
  /\ client' = client
  /\ UNCHANGED <<earlier, sorobanClient, profile, codec, wallet>>

\* The wallet answered: rethrow its error, or enter submitTransaction.
LegacySignResponse ==
  /\ pc = "L_awaitSign"
  /\ \E a \in WalletAnswers :
       /\ signAnswer' = a
       /\ IF AfterSign(a) = "throw"
            THEN /\ pc' = "done"
                 /\ outcome' = Thrown("NONE")
                 /\ UNCHANGED <<calls, stages>>
            ELSE /\ pc' = "S_awaitSend"
                 /\ calls' = [calls EXCEPT !.send = @ + 1]
                 /\ stages' = Append(stages, "Submitted")
                 /\ outcome' = outcome
  /\ UNCHANGED <<op, net, envelope, options, now, sendResponse, lastStatus, simResult, cancel>>
  /\ client' = client
  /\ UNCHANGED <<earlier, sorobanClient, profile, codec, wallet>>

\* ---------------------------------------- ContractClient.simulateTransaction
\* The error payloads (simResponse.error) a contract-level rejection carries.
ContractErrors == {"Error(Contract, #1)", "HostError: Error(WasmVm, InvalidAction)"}

\* Answers of simulate-transaction: a transport exception, a contract-level
\* error with its payload, or a success with or without a result entry.
SimAnswers == {"THROW", "OK", "OK_NORESULT"} \cup ContractErrors

\* Mutation of SimErrorData: the payload is replaced by the error's message.
SimErrorData_MessageOnly(payload) == "Simulation error"

\* The data of the SIMULATION_ERROR error made for a payload.
SimErrorData(payload) == payload

\* The SimulationResponse simulateTransaction returns for an answer.  An error
\* response of the service carries no transactionData, and the catch branch
\* returns the empty object for it.
SimulateResult(a) ==
  CASE a = "THROW" -> [hasData |-> FALSE, hasResult |-> FALSE, error |-> "SIMULATION_FAILED",
                       data |-> ErrorData("exception", Undefined)]
    [] a \in ContractErrors ->
                      [hasData |-> FALSE, hasResult |-> FALSE, error |-> "SIMULATION_ERROR",
                       data |-> ErrorData("simResponse.error", SimErrorData(a))]
    [] a = "OK" -> [hasData |-> TRUE, hasResult |-> TRUE, error |-> "NONE", data |-> NoData]
    [] OTHER -> [hasData |-> TRUE, hasResult |-> FALSE, error |-> "NONE", data |-> NoData]

\* The value simulateTransaction returns, as an outcome.
SimOutcome(sim) ==
  [Returned(sim.error = "NONE", sim.error, Undefined, Undefined, Undefined)
     EXCEPT !.data = sim.data]

\* Mutation of SimulateRequests: the probe is also submitted.
SimulateRequests_Submits == <<"simulateTransaction", "sendTransaction">>

\* The RPC calls simulateTransaction issues for its probe transaction.
SimulateRequests == <<"simulateTransaction">>

\* The call counts after simulateTransaction issued its requests.
SimulateCalls ==
  [NoCalls EXCEPT !.sim = CountOf(SimulateRequests, "simulateTransaction"),
                  !.send = CountOf(SimulateRequests, "sendTransaction")]

\* The options callers pass: fee and timeout absent or given (0 included).
OptionSets == [fee : {UndefinedNum, 200}, timeout : {UndefinedNum, 0, 60}]

\* JavaScript's x || d for a numeric option.
OrDefault(x, d) == IF x = UndefinedNum \/ x = 0 THEN d ELSE x

\* Mutation of PrepareParses: missing transactionData is not noticed.
PrepareParses_IgnoresMissing(sim, parseOk) == parseOk

\* TransactionBuilder.fromXDR(simResponse.transactionData): throws when the
\* data is missing; parseOk is whether the SDK accepts data that is there.
PrepareParses(sim, parseOk) == sim.hasData /\ parseOk

\* The envelope prepareTransaction writes at time t.
PreparedEnvelope(opts, t) ==
  [wellFormed |-> TRUE, fee |-> OrDefault(opts.fee, DEFAULT_FEE), minTime |-> 0,
   maxTime |-> t + OrDefault(opts.timeout, TX_TIMEOUT)]

\* Call of simulateTransaction on its own: build the probe (an invalid public
\* key throws, which the catch turns into a result) and issue the simulation.
simulateTransaction ==
  /\ pc = "idle"
  /\ \E validKey \in BOOLEAN :
       IF validKey
         THEN /\ pc' = "Sim_await"
              /\ calls' = SimulateCalls
              /\ stages' = <<"Built">>
              /\ simResult' = NoSim
              /\ outcome' = NoOutcome
         ELSE /\ pc' = "done"
              /\ calls' = NoCalls
              /\ stages' = <<>>
              /\ simResult' = SimulateResult("THROW")
              /\ outcome' = SimOutcome(SimulateResult("THROW"))
  /\ Fresh("simulateTransaction")
  /\ UNCHANGED <<net, envelope, options>>
  /\ client' = client
  /\ UNCHANGED <<earlier, codec, wallet>>

\* simulate-transaction answered (or threw).
SimResponse ==
  /\ pc = "Sim_await"
  /\ \E a \in SimAnswers :
       /\ net' = [net EXCEPT !.sim = a]
       /\ simResult' = SimulateResult(a)
       /\ outcome' = SimOutcome(SimulateResult(a))
       /\ stages' = IF a = "THROW" THEN stages ELSE Append(stages, "Simulated")
  /\ \E d \in 0..MaxLatency : now' = now + d
  /\ pc' = "done"
  /\ UNCHANGED <<op, envelope, options, sendResponse, lastStatus, calls, signAnswer, cancel>>
  /\ client' = client
  /\ UNCHANGED <<earlier, sorobanClient, profile, codec, wallet>>

\* ContractClient.prepareTransaction applied to the transactionData of the
\* SimulationResponse the caller holds, whatever that response carries.
prepareTransaction ==
  /\ pc = "done"
  /\ op = "simulateTransaction"
  /\ \E opts \in OptionSets, parseOk \in BOOLEAN :
       /\ options' = opts
       /\ IF PrepareParses(simResult, parseOk)
            THEN /\ envelope' = PreparedEnvelope(opts, now)
                 /\ stages' = Append(stages, "Prepared")
                 /\ outcome' = [Returned(TRUE, "NONE", Undefined, Undefined, Undefined)
                                  EXCEPT !.xdr = TRUE]
            ELSE /\ envelope' = envelope
                 /\ stages' = stages
                 /\ outcome' = Thrown("PREPARE_FAILED")
  /\ op' = "prepareTransaction"
  /\ calls' = [calls EXCEPT !.prepare = @ + 1]
  /\ UNCHANGED <<pc, net, now, sendResponse, lastStatus, simResult, signAnswer, cancel>>
  /\ client' = client
  /\ UNCHANGED <<earlier, sorobanClient, profile, codec, wallet>>

\* ------------------------ MarketplaceOperations and TokenOperations methods
MarketOps == {"M.listToken", "M.buyToken", "M.cancelListing", "M.updateListingPrice"}
TokenOps == {"T.createToken"}

\* The code of the ContractError a method's catch throws for an error e that
\* came out of its try block.
MarketCatch(code) == code
TokenCatch(code) == "CREATE_TOKEN_FAILED"

\* Mutation of MarketProceeds: the simulation's error is not looked at.
MarketProceeds_Always(sim) == TRUE

\* if (simResult.error) throw simResult.error: whether the method goes on to
\* prepare.
MarketProceeds(sim) == sim.error = "NONE"

\* Call of a MarketplaceOperations method: encode the arguments, simulate.
MarketplaceCall ==
  /\ pc = "idle"
  /\ \E o \in MarketOps : Fresh(o)
  /\ \E opts \in OptionSets : options' = opts
  /\ \E validKey \in BOOLEAN :
       IF validKey
         THEN /\ pc' = "M_awaitSim"
              /\ calls' = SimulateCalls
              /\ stages' = <<"Built">>
              /\ simResult' = NoSim
              /\ outcome' = NoOutcome
         ELSE /\ pc' = "done"
              /\ calls' = NoCalls
              /\ stages' = <<>>
              /\ simResult' = SimulateResult("THROW")
              /\ outcome' = [Thrown(MarketCatch(SimulateResult("THROW").error))
                               EXCEPT !.data = SimulateResult("THROW").data]
  /\ UNCHANGED <<net, envelope>>
  /\ client' = client
  /\ UNCHANGED <<earlier, codec, wallet>>

\* The simulation answered: throw its error, or prepare the envelope and
\* return it for signing.  The wrapper around prepareTransaction rethrows a
\* failure as a ContractError of its own.
MarketplaceSimResponse ==
  /\ pc = "M_awaitSim"
  /\ \E a \in SimAnswers, parseOk \in BOOLEAN, d \in 0..MaxLatency :
       LET sim == SimulateResult(a) IN
       /\ now' = now + d
       /\ net' = [net EXCEPT !.sim = a]
       /\ simResult' = sim
       /\ IF ~MarketProceeds(sim)
            THEN /\ outcome' = [Thrown(MarketCatch(sim.error)) EXCEPT !.data = sim.data]
                 /\ stages' = IF a = "THROW" THEN stages ELSE Append(stages, "Simulated")
                 /\ UNCHANGED <<envelope, calls>>
            ELSE /\ calls' = [calls EXCEPT !.prepare = @ + 1]
                 /\ IF PrepareParses(sim, parseOk)
                      THEN /\ envelope' = PreparedEnvelope(options, now + d)
                           /\ stages' = stages \o <<"Simulated", "Prepared">>
                           /\ outcome' = [Returned(FALSE, "REQUIRES_SIGNING", Undefined,
                                                   Undefined, Undefined) EXCEPT !.xdr = TRUE]
                      ELSE /\ envelope' = envelope
                           /\ stages' = Append(stages, "Simulated")
                           /\ outcome' = Thrown(MarketCatch("PREPARE_WRAPPED"))
  /\ pc' = "done"
  /\ UNCHANGED <<op, options, sendResponse, lastStatus, signAnswer, cancel>>
  /\ client' = client
  /\ UNCHANGED <<earlier, sorobanClient, profile, codec, wallet>>

\* Call of TokenOperations.createToken: encode the arguments, simulate.
TokenCall ==
  /\ pc = "idle"
  /\ \E o \in TokenOps : Fresh(o)
  /\ \E validKey \in BOOLEAN :
       IF validKey
         THEN /\ pc' = "T_awaitSim"
              /\ calls' = SimulateCalls
              /\ stages' = <<"Built">>
              /\ simResult' = NoSim
              /\ outcome' = NoOutcome
         ELSE /\ pc' = "done"
              /\ calls' = NoCalls
              /\ stages' = <<>>
              /\ simResult' = SimulateResult("THROW")
              /\ outcome' = Thrown(TokenCatch(SimulateResult("THROW").error))
  /\ UNCHANGED <<net, envelope, options>>
  /\ client' = client
  /\ UNCHANGED <<earlier, codec, wallet>>

\* The simulation answered: throw its error (wrapped), or return its data.
TokenSimResponse ==
  /\ pc = "T_awaitSim"
  /\ \E a \in SimAnswers :
       LET sim == SimulateResult(a) IN
       /\ net' = [net EXCEPT !.sim = a]
       /\ simResult' = sim
       /\ stages' = IF a = "THROW" THEN stages ELSE Append(stages, "Simulated")
       /\ outcome' = IF sim.error # "NONE"
                       THEN [Thrown(TokenCatch(sim.error))
                               EXCEPT !.data = ErrorData("cause", sim.error)]
                       ELSE Returned(TRUE, "NONE", Undefined, Undefined, Undefined)
  /\ \E d \in 0..MaxLatency : now' = now + d
  /\ pc' = "done"
  /\ UNCHANGED <<op, envelope, options, sendResponse, lastStatus, calls, signAnswer, cancel>>
  /\ client' = client
  /\ UNCHANGED <<earlier, sorobanClient, profile, codec, wallet>>

\* ------------------------------------ ContractClient.callMethod and queries
QueryOps == {"Q.callMethod", "Q.getListing", "Q.getAllListings", "Q.getListingsBySeller",
             "Q.getListingsByToken"}
CollectionQueryOps == {"Q.getAllListings", "Q.getListingsBySeller", "Q.getListingsByToken"}

\* Mutation of CallMethodSteps: the query runs the whole pipeline.
CallMethodSteps_Pipeline == <<"simulateTransaction", "prepareTransaction", "executeTransaction">>

\* The client methods callMethod invokes.
CallMethodSteps == <<"simulateTransaction">>

\* What callMethod ends with for simulation answer a carrying return value qv.
CallMethodResult(a, qv) ==
  LET sim == SimulateResult(a) IN
  IF sim.error # "NONE"
    THEN [Thrown(sim.error) EXCEPT !.data = sim.data]
    ELSE IF sim.hasResult
           THEN IF ScValThrows(qv)
                  THEN Thrown("NONE")
                  ELSE Returned(TRUE, "NONE", Undefined, scValToNative(qv), Undefined)
           ELSE [Thrown("NO_RESULT") EXCEPT !.data = ErrorData("simResult", Undefined)]

\* The code of the ContractError a query's catch makes of an error that is
\* no ContractError.
QueryFailedCode(o) ==
  CASE o = "Q.getListing" -> "GET_LISTING_FAILED"
    [] o = "Q.getAllListings" -> "GET_ALL_LISTINGS_FAILED"
    [] o = "Q.getListingsBySeller" -> "GET_LISTINGS_BY_SELLER_FAILED"
    [] OTHER -> "GET_LISTINGS_BY_TOKEN_FAILED"

\* catch (e) of a query: a ContractError is rethrown, anything else wrapped.
QueryCatch(o, thrown) == IF thrown.code # "NONE" THEN thrown ELSE Thrown(QueryFailedCode(o))

\* parseListingData throws on a value that is no object.
INVALID_LISTING_FORMAT == [Thrown("INVALID_LISTING_FORMAT") EXCEPT !.data = ErrorData("rawListing", Undefined)]

\* parseListingData of the i-th element of the decoded array: the Listing it
\* returns, by its id.
parseListingData(qv, i) == [id |-> qv.ids[i]]
ParseThrows(qv, i) == qv.elems[i] # "object"

\* result.map(parseListingData) when no element throws.
MapListings(qv) == [i \in 1..Len(qv.elems) |-> parseListingData(qv, i)]

\* Mutation of CollectionResult: elements that are no objects are skipped.
CollectionResult_SkipsInvalid(qv) ==
  IF ~IsArray(qv)
    THEN [Thrown("INVALID_RESPONSE") EXCEPT !.data = ErrorData("result", qv.val)]
    ELSE [Returned(TRUE, "NONE", Undefined, qv.val, Undefined)
            EXCEPT !.listings = SelectSeq(MapListings(qv), LAMBDA l : l.id \in {"L1", "L2"})]

\* Mutation of CollectionResult: a value that is no array reads as no listings.
CollectionResult_SilentEmpty(qv) ==
  IF ~IsArray(qv)
    THEN Returned(TRUE, "NONE", Undefined, "[]", Undefined)
    ELSE IF \E i \in 1..Len(qv.elems) : ParseThrows(qv, i)
           THEN INVALID_LISTING_FORMAT
           ELSE [Returned(TRUE, "NONE", Undefined, qv.val, Undefined)
                   EXCEPT !.listings = MapListings(qv)]

\* What a collection query makes of the decoded value qv.
CollectionResult(qv) ==
  IF ~IsArray(qv)
    THEN [Thrown("INVALID_RESPONSE") EXCEPT !.data = ErrorData("result", qv.val)]
    ELSE IF \E i \in 1..Len(qv.elems) : ParseThrows(qv, i)
           THEN INVALID_LISTING_FORMAT
           ELSE [Returned(TRUE, "NONE", Undefined, qv.val, Undefined)
                   EXCEPT !.listings = MapListings(qv)]

\* What query o ends with for simulation answer a carrying return value qv.
QueryResult(o, a, qv) ==
  LET cm == CallMethodResult(a, qv) IN
  IF o = "Q.callMethod" THEN cm
  ELSE IF cm.kind = "thrown" THEN QueryCatch(o, cm)
  ELSE IF o = "Q.getListing"
         THEN IF IsObject(qv) THEN cm ELSE INVALID_LISTING_FORMAT
         ELSE CollectionResult(qv)

\* Call of callMethod, directly or from a MarketplaceOperations query: it
\* calls simulateTransaction, which builds the probe and issues the simulation.
QueryCall ==
  /\ pc = "idle"
  /\ \E o \in QueryOps : Fresh(o)
  /\ \E qv \in QueryValues : net' = [net EXCEPT !.qval = qv]
  /\ \E validKey \in BOOLEAN :
       IF validKey
         THEN /\ pc' = "Q_awaitSim"
              /\ calls' = [SimulateCalls EXCEPT
                             !.prepare = CountOf(CallMethodSteps, "prepareTransaction"),
                             !.send = @ + CountOf(CallMethodSteps, "executeTransaction")]
              /\ stages' = <<"Built">>
                            \o (IF CountOf(CallMethodSteps, "prepareTransaction") > 0
                                  THEN <<"Prepared">> ELSE <<>>)
              /\ simResult' = NoSim
              /\ outcome' = NoOutcome
         ELSE /\ pc' = "done"
              /\ calls' = NoCalls
              /\ stages' = <<>>
              /\ simResult' = SimulateResult("THROW")
              /\ outcome' = QueryResult(op', "THROW", net'.qval)
  /\ UNCHANGED <<envelope, options>>
  /\ client' = client
  /\ UNCHANGED <<earlier, codec, wallet>>

\* The simulation answered: throw its error, or decode and shape its result.
QuerySimResponse ==
  /\ pc = "Q_awaitSim"
  /\ \E a \in SimAnswers, d \in 0..MaxLatency :
       /\ now' = now + d
       /\ net' = [net EXCEPT !.sim = a]
       /\ simResult' = SimulateResult(a)
       /\ stages' = IF a = "THROW" THEN stages ELSE Append(stages, "Simulated")
       /\ outcome' = QueryResult(op, a, net.qval)
  /\ pc' = "done"
  /\ UNCHANGED <<op, envelope, options, sendResponse, lastStatus, calls, signAnswer, cancel>>
  /\ client' = client
  /\ UNCHANGED <<earlier, sorobanClient, profile, codec, wallet>>

\* ------------------------------------------ MarketplaceClient.getAllListings
\* What contract.call resolves to: a value of any of the shapes, or a throw.
McAnswers == QueryValues \cup {NoQVal}

\* What MarketplaceClient.getAllListings ends with: every error, its own
\* "Invalid response from contract" included, leaves as a new plain Error
\* (no code) whose message ends with the message of the error caught.
McGetAllListingsResult(qv) ==
  IF qv = NoQVal
    THEN [Thrown("NONE") EXCEPT !.data = ErrorData("message", "cause")]
    ELSE IF ~IsArray(qv)
           THEN [Thrown("NONE")
                   EXCEPT !.data = ErrorData("message", "Invalid response from contract")]
           ELSE Returned(TRUE, "NONE", Undefined, qv.val, Undefined)

\* Call of MarketplaceClient.getAllListings.
McGetAllListings ==
  /\ pc = "idle"
  /\ Fresh("MC.getAllListings")
  /\ pc' = "MC_await"
  /\ calls' = NoCalls
  /\ stages' = <<>>
  /\ outcome' = NoOutcome
  /\ UNCHANGED <<net, envelope, options, simResult>>
  /\ client' = client
  /\ UNCHANGED <<earlier, codec, wallet>>

\* contract.call resolved (or threw).
McGetAllListingsResponse ==
  /\ pc = "MC_await"
  /\ \E qv \in McAnswers :
       /\ net' = [net EXCEPT !.qval = qv]
       /\ outcome' = McGetAllListingsResult(qv)
  /\ pc' = "done"
  /\ UNCHANGED <<op, envelope, options, now, sendResponse, lastStatus, calls, stages,
                 simResult, signAnswer, cancel>>
  /\ client' = client
  /\ UNCHANGED <<earlier, sorobanClient, profile, codec, wallet>>

\* ------------------------------------------------- client.ts: the singleton
\* initSorobanClient(useTestnet), called by any flow at any time: the
\* module-level client is replaced.
initSorobanClient ==
  /\ \E useTestnet \in BOOLEAN :
       sorobanClient' = NetworkRpcUrl(IF useTestnet THEN "TESTNET" ELSE "PUBLIC")
  /\ UNCHANGED <<pc, op, net, envelope, options, now, sendResponse, lastStatus, outcome,
                 calls, stages, simResult, signAnswer, cancel, client, earlier, profile,
                 codec, wallet>>

\* The caller takes the outcome; the next invocation may start.
ReturnRecording(last) ==
  /\ pc = "done"
  /\ pc' = "idle"
  /\ op' = "none"
  /\ net' = NoNet
  /\ envelope' = NoEnvelope
  /\ options' = NoOptions
  /\ now' = 0
  /\ sendResponse' = NoSend
  /\ lastStatus' = Undefined
  /\ outcome' = NoOutcome
  /\ calls' = NoCalls
  /\ stages' = <<>>
  /\ simResult' = NoSim
  /\ signAnswer' = Undefined
  /\ cancel' = NoCancel
  /\ client' = client
  /\ earlier' = last
  /\ profile' = NoProfile
  /\ UNCHANGED <<sorobanClient, codec, wallet>>

Return == ReturnRecording(earlier)

\* The same step, with the method that ended noted in the history of the
\* client object.
ClientReturn == ReturnRecording(op)

Next ==
  \/ executeTransaction
  \/ ExecSendResponse
  \/ ExecTimer
  \/ ExecGetResponse
  \/ RequestCancel
  \/ handleSignTransaction
  \/ HandleSignResponse
  \/ DirectCall
  \/ DirectAccountResponse
  \/ DirectSignResponse
  \/ DirectSendResponse
  \/ submitTransaction
  \/ SubmitSendResponse
  \/ SubmitGetResponse
  \/ SubmitTimer
  \/ LegacyCall
  \/ LegacyAccountResponse
  \/ LegacyPrepareResponse
  \/ LegacySignResponse
  \/ simulateTransaction
  \/ SimResponse
  \/ prepareTransaction
  \/ MarketplaceCall
  \/ MarketplaceSimResponse
  \/ TokenCall
  \/ TokenSimResponse
  \/ QueryCall
  \/ QuerySimResponse
  \/ McGetAllListings
  \/ McGetAllListingsResponse
  \/ Return

Spec == Init /\ [][Next]_vars

\* One ContractClient object used for one method call after another.
ClientNext ==
  \/ simulateTransaction
  \/ SimResponse
  \/ prepareTransaction
  \/ executeTransaction
  \/ ExecSendResponse
  \/ ExecTimer
  \/ ExecGetResponse
  \/ ClientReturn

ClientSpec == Init /\ [][ClientNext]_vars

\* The function-style operations, with other flows re-selecting the network
\* of the singleton at any time.
SingletonNext ==
  \/ DirectCall
  \/ DirectAccountResponse
  \/ DirectSignResponse
  \/ DirectSendResponse
  \/ initSorobanClient
  \/ Return

SingletonSpec == Init /\ [][SingletonNext]_vars

\* The argument lists the operations build, each applied to drawn inputs.
CodecInit ==
  /\ InitProgram
  /\ codec \in {CodecRun("none", "none", i, <<>>) : i \in CodecInputs}
  /\ wallet = NoWallet

Program == <<pc, op, net, envelope, options, now, sendResponse, lastStatus, outcome, calls,
             stages, simResult, signAnswer, cancel, client, earlier, sorobanClient, profile>>

buyCreatorTokens ==
  /\ codec.impl = "none"
  /\ \E impl \in BuyImpls :
       codec' = CodecRun(impl, "buy_tokens", codec.in,
                         BuyTokensArgs(impl, codec.in.caller, codec.in.tokenId,
                                       codec.in.amount, codec.in.price))
  /\ UNCHANGED <<Program, wallet>>

listToken ==
  /\ codec.impl = "none"
  /\ \E impl \in ListImpls :
       codec' = CodecRun(impl, ListMethod(impl), codec.in,
                         ListTokenArgs(impl, codec.in.caller, codec.in.tokenId,
                                       codec.in.amount, codec.in.price))
  /\ UNCHANGED <<Program, wallet>>

createCreatorToken ==
  /\ codec.impl = "none"
  /\ \E slope, creatorFee \in {Decimal(0, 0), Decimal(0, FinePerStroop)} :
       codec' = CodecRun("part_000", "create_token", codec.in,
                         CreateTokenArgs(codec.in.caller, "name", "description",
                                         codec.in.price, slope, creatorFee))
  /\ UNCHANGED <<Program, wallet>>

CodecNext ==
  \/ buyCreatorTokens
  \/ listToken
  \/ createCreatorToken

CodecSpec == CodecInit /\ [][CodecNext]_vars

\* ---------------------------------- WalletProvider and the wallet utilities
\* Mutation of AsksForKey: the key is requested whatever the answers were.
AsksForKey_Always(connected, allowed) == TRUE

\* if (connected && allowed): whether getPublicKey is called.
AsksForKey(connected, allowed) == connected = "yes" /\ allowed = "yes"

\* The call in slot s ends with data.
Ends(w, s, data) == [w EXCEPT !.flows[s] = NoFlow, !.last = data]

\* connect(): setIsConnecting(true), setError(null), then connectWallet(),
\* which throws at once when the extension is not installed.
ConnectBegins(w, s, kind) ==
  IF ~w.ext.installed
    THEN Ends([w EXCEPT !.error = TRUE, !.isConnecting = FALSE], s,
              WalletThrew([NoFlow EXCEPT !.kind = kind]))
    ELSE [w EXCEPT !.isConnecting = TRUE, !.error = FALSE,
                   !.flows[s] = [NoFlow EXCEPT !.kind = kind, !.pc = "isConnected"]]

\* catch and finally of connect() after connectWallet threw.
ConnectThrows(w, s) ==
  Ends([w EXCEPT !.error = TRUE, !.isConnecting = FALSE], s, WalletThrew(w.flows[s]))

\* connectWallet returned for the call f: connect() stores its three fields
\* and, in finally, clears isConnecting.
ConnectReturns(w, s, f, key) ==
  Ends([w EXCEPT !.publicKey = key, !.isConnected = (f.connected = "yes"),
                 !.isAllowed = (f.allowed = "yes"), !.isConnecting = FALSE], s,
       WalletData(f.kind, key, f.connected, f.allowed, f.keyCalls))

\* checkWalletConnection returns { publicKey: '', isConnected: false }.
NotConnected(f) == WalletData(f.kind, "", f.connected, f.allowed, f.keyCalls)

ProviderKinds == {"connect", "requestPermission"}

\* The Connect button of WalletManager, enabled by its disabled attribute.
handleConnectWallet ==
  /\ ~wallet.isConnecting /\ wallet.ext.installed
  /\ wallet.isAllowed \/ wallet.isConnected
  /\ \E s \in Slots :
       /\ wallet.flows[s].pc = "idle"
       /\ wallet' = ConnectBegins(wallet, s, "connect")
  /\ UNCHANGED <<Program, codec>>

\* The Request Permission button: requestPermission() awaits
\* requestWalletPermission(), which first asks isAllowed.
handleRequestPermission ==
  /\ ~wallet.isAllowed /\ ~wallet.isConnecting /\ wallet.ext.installed
  /\ \E s \in Slots :
       /\ wallet.flows[s].pc = "idle"
       /\ wallet' = [wallet EXCEPT !.error = FALSE,
                       !.flows[s] = [NoFlow EXCEPT !.kind = "requestPermission",
                                                   !.pc = "rp_isAllowed"]]
  /\ UNCHANGED <<Program, codec>>

\* The provider's effect, on mount and on window focus.
checkWalletStatus ==
  /\ wallet.ext.installed
  /\ \E s \in Slots :
       /\ wallet.flows[s].pc = "idle"
       /\ wallet' = [wallet EXCEPT !.flows[s] = [NoFlow EXCEPT !.kind = "checkWalletStatus",
                                                               !.pc = "isConnected"]]
  /\ UNCHANGED <<Program, codec>>

\* checkWalletConnection().
checkWalletConnection ==
  /\ \E s \in Slots :
       /\ wallet.flows[s].pc = "idle"
       /\ wallet' = [wallet EXCEPT !.flows[s] = [NoFlow EXCEPT !.kind = "checkWalletConnection",
                                                               !.pc = "isConnected"]]
  /\ UNCHANGED <<Program, codec>>

\* isAllowed() answered requestWalletPermission.
RequestPermissionAllowedAnswer ==
  /\ \E s \in Slots, throws \in BOOLEAN :
       /\ wallet.flows[s].pc = "rp_isAllowed"
       /\ wallet' =
            IF throws
              THEN Ends([wallet EXCEPT !.error = TRUE], s, WalletThrew(wallet.flows[s]))
              ELSE IF wallet.ext.allowed
                     THEN ConnectBegins([wallet EXCEPT !.isAllowed = TRUE], s, "requestPermission")
                     ELSE [wallet EXCEPT !.flows[s].pc = "rp_authorize"]
  /\ UNCHANGED <<Program, codec>>

\* window.freighter.authorize() answered: the user granted or refused.
AuthorizeAnswer ==
  /\ \E s \in Slots, a \in {"granted", "refused", "THROW"} :
       /\ wallet.flows[s].pc = "rp_authorize"
       /\ wallet' =
            CASE a = "THROW" ->
                   Ends([wallet EXCEPT !.error = TRUE], s, WalletThrew(wallet.flows[s]))
              [] a = "refused" ->
                   Ends([wallet EXCEPT !.isAllowed = FALSE], s,
                        WalletData("requestPermission", "", "unknown", "no", 0))
              [] OTHER ->
                   ConnectBegins([wallet EXCEPT !.isAllowed = TRUE, !.ext.allowed = TRUE],
                                 s, "requestPermission")
  /\ UNCHANGED <<Program, codec>>

\* isConnected() answered.
IsConnectedAnswer ==
  /\ \E s \in Slots, throws \in BOOLEAN :
       LET f == wallet.flows[s]
           g == [f EXCEPT !.connected = Answered(wallet.ext.connected), !.pc = "isAllowed"]
       IN
       /\ f.pc = "isConnected"
       /\ wallet' =
            CASE f.kind \in ProviderKinds ->
                   IF throws THEN ConnectThrows(wallet, s)
                             ELSE [wallet EXCEPT !.flows[s] = g]
              [] f.kind = "checkWalletStatus" ->
                   IF throws THEN Ends(wallet, s, WalletThrew(f))
                             ELSE [wallet EXCEPT !.flows[s] = g]
              [] OTHER ->
                   IF throws THEN Ends(wallet, s, NotConnected(f))
                   ELSE IF ~wallet.ext.connected THEN Ends(wallet, s, NotConnected(g))
                   ELSE [wallet EXCEPT !.flows[s] = g]
  /\ UNCHANGED <<Program, codec>>

\* isAllowed() answered connectWallet, checkWalletStatus or
\* checkWalletConnection.
IsAllowedAnswer ==
  /\ \E s \in Slots, throws \in BOOLEAN :
       LET f == wallet.flows[s]
           g == [f EXCEPT !.allowed = Answered(wallet.ext.allowed)]
           asking == [g EXCEPT !.pc = "getPublicKey", !.keyCalls = @ + 1]
       IN
       /\ f.pc = "isAllowed"
       /\ wallet' =
            CASE f.kind \in ProviderKinds ->
                   IF throws THEN ConnectThrows(wallet, s)
                   ELSE IF AsksForKey(g.connected, g.allowed)
                          THEN [wallet EXCEPT !.flows[s] = asking]
                          ELSE ConnectReturns(wallet, s, g, "")
              [] f.kind = "checkWalletStatus" ->
                   IF throws THEN Ends(wallet, s, WalletThrew(f))
                   ELSE LET w == [wallet EXCEPT !.isConnected = (g.connected = "yes"),
                                                !.isAllowed = (g.allowed = "yes")]
                        IN IF AsksForKey(g.connected, g.allowed)
                             THEN [w EXCEPT !.flows[s] = asking]
                             ELSE Ends(w, s, WalletData(f.kind, "", g.connected, g.allowed,
                                                        g.keyCalls))
              [] OTHER ->
                   IF throws THEN Ends(wallet, s, NotConnected(f))
                   ELSE IF ~wallet.ext.allowed
                          THEN Ends(wallet, s, NotConnected(g))
                          ELSE [wallet EXCEPT !.flows[s] = asking]
  /\ UNCHANGED <<Program, codec>>

\* getPublicKey() answered.
GetPublicKeyAnswer ==
  /\ \E s \in Slots, a \in {"GA", "THROW"} :
       LET f == wallet.flows[s] IN
       /\ f.pc = "getPublicKey"
       /\ wallet' =
            CASE f.kind \in ProviderKinds ->
                   IF a = "THROW" THEN ConnectThrows(wallet, s)
                                  ELSE ConnectReturns(wallet, s, f, a)
              [] f.kind = "checkWalletStatus" ->
                   IF a = "THROW"
                     THEN Ends(wallet, s, WalletThrew(f))
                     ELSE Ends([wallet EXCEPT !.publicKey = a], s,
                               WalletData(f.kind, a, f.connected, f.allowed, f.keyCalls))
              [] OTHER ->
                   IF a = "THROW"
                     THEN Ends(wallet, s, NotConnected(f))
                     ELSE Ends(wallet, s, WalletData(f.kind, a, f.connected, f.allowed,
                                                     f.keyCalls))
  /\ UNCHANGED <<Program, codec>>

\* The user locks or unlocks the wallet, or the site's permission changes.
WalletChanges ==
  /\ \E c, a \in BOOLEAN :
       /\ <<c, a>> # <<wallet.ext.connected, wallet.ext.allowed>>
       /\ wallet' = [wallet EXCEPT !.ext.connected = c, !.ext.allowed = a]
  /\ UNCHANGED <<Program, codec>>

WalletInit ==
  /\ InitProgram
  /\ codec = NoCodec
  /\ wallet \in {[NoWallet EXCEPT !.ext = x] : x \in Extensions}

WalletNext ==
  \/ handleConnectWallet
  \/ handleRequestPermission
  \/ checkWalletStatus
  \/ checkWalletConnection
  \/ RequestPermissionAllowedAnswer
  \/ AuthorizeAnswer
  \/ IsConnectedAnswer
  \/ IsAllowedAnswer
  \/ GetPublicKeyAnswer
  \/ WalletChanges

WalletSpec == WalletInit /\ [][WalletNext]_vars

\* The same calls, one at a time: a call starts when no other is in flight.
InFlight(w) == {s \in Slots : w.flows[s].pc # "idle"}
OneAtATime == Cardinality(InFlight(wallet)) <= 1
WalletCallNext ==
  \/ handleConnectWallet /\ OneAtATime'
  \/ handleRequestPermission /\ OneAtATime'
  \/ checkWalletStatus /\ OneAtATime'
  \/ checkWalletConnection /\ OneAtATime'
  \/ RequestPermissionAllowedAnswer /\ OneAtATime'
  \/ AuthorizeAnswer /\ OneAtATime'
  \/ IsConnectedAnswer /\ OneAtATime'
  \/ IsAllowedAnswer /\ OneAtATime'
  \/ GetPublicKeyAnswer /\ OneAtATime'
  \/ WalletChanges /\ OneAtATime'

WalletCallSpec == WalletInit /\ [][WalletCallNext]_vars

\* Connect calls and status checks only, one after the other.
WalletStatusNext ==
  \/ handleConnectWallet /\ OneAtATime'
  \/ checkWalletStatus /\ OneAtATime'
  \/ IsConnectedAnswer /\ OneAtATime'
  \/ IsAllowedAnswer /\ OneAtATime'
  \/ GetPublicKeyAnswer /\ OneAtATime'
  \/ WalletChanges /\ OneAtATime'

WalletStatusSpec == WalletInit /\ [][WalletStatusNext]_vars

\* ------------------------------------------------------------- properties
Range(seq) == {seq[i] : i \in 1..Len(seq)}

\* Position of the first answer of script s that is not PENDING; 0 if none.
FirstNonPending(s) ==
  LET idx == {i \in 1..Len(s) : s[i] # "PENDING"}
  IN IF idx = {} THEN 0 ELSE CHOOSE i \in idx : \A j \in idx : i <= j

\* The operations that change ledger state.
MutatingDomainOps == MarketOps \cup TokenOps \cup DirectOps \cup LegacyOps

\* C1: during one executeTransaction (or submitTransaction) of a parseable
\* signed envelope send-transaction is issued exactly once, whatever the
\* status answers are: polling repeats only get-transaction, and an operation
\* that polls through submitTransaction never has sent more than once.
C1_SendIssuedOnce ==
  /\ op \in {"executeTransaction", "submitTransaction"} =>
       /\ calls.send <= 1
       /\ envelope.wellFormed => calls.send = 1
  /\ op \in LegacyOps => /\ calls.send <= 1
                         /\ calls.get > 0 => calls.send = 1

\* C1 witness: an execute that polled more than once has returned.
C1_Witness ==
  /\ op = "executeTransaction" /\ pc = "done"
  /\ calls.get >= 2 /\ calls.send = 1

\* C2: after send-transaction answered PENDING, executeTransaction issues no
\* status query after the first answer that is not PENDING and has issued
\* exactly that many when it returns; when that answer is SUCCESS (as in
\* PENDING, PENDING, SUCCESS) it returns successful with the hash and the
\* decoded return value, one poll interval per query after the submission.
C2_SuccessAfterExactPolls ==
  (op = "executeTransaction" /\ sendResponse.status = "PENDING") =>
    LET j == FirstNonPending(net.script) IN
    /\ j > 0 => calls.get <= j
    /\ pc = "done" => j > 0 /\ calls.get = j
    /\ (pc = "done" /\ j > 0 /\ net.script[j] = "SUCCESS") =>
         /\ outcome.kind = "returned" /\ outcome.successful
         /\ outcome.hash = TxHash
         /\ now = j * POLL_INTERVAL
         /\ (net.retval # NoVal /\ ~ScValThrows(net.retval)) =>
              outcome.result = scValToNative(net.retval)

\* C2 witness: the script PENDING, PENDING, SUCCESS ended in a success that
\* carries the decoded value after three queries.
C2_Witness ==
  /\ op = "executeTransaction" /\ pc = "done"
  /\ net.script = <<"PENDING", "PENDING", "SUCCESS">>
  /\ outcome.successful /\ outcome.result = "T1" /\ calls.get = 3

\* C3 (as claimed): once a status query has answered PENDING after the
\* envelope's time bound elapsed, executeTransaction has returned a Rejected
\* outcome with a timeout error (it does not go round the loop again).  The
\* clock moves only with the loop's sleep, so outside E_awaitGet the latest
\* answer was received at time now.
C3_TimeoutRejected ==
  (/\ op = "executeTransaction"
   /\ envelope.maxTime # TimeoutInfinite
   /\ pc # "E_awaitGet"
   /\ lastStatus = "PENDING"
   /\ now > envelope.maxTime)
  => (pc = "done" /\ outcome.code = "TIMEOUT_REJECTED")

\* C4 (as claimed): after the caller raised its cancellation signal during
\* the poll loop no further status query is issued, and the outcome returned
\* is Cancelled.
C4_CancelAbortsPolling ==
  cancel.requested =>
    /\ cancel.getsAfter = 0
    /\ pc = "done" => outcome.code = "CANCELLED"

\* C5: when the wallet declined (threw on) signing, the operation has issued
\* no send-transaction call, in every operation that signs and submits.
C5_DeclineMeansNoSend ==
  Declined(signAnswer) => calls.send = 0

\* C5 witness: an operation that signs and submits ended on a declined
\* signature by throwing.
C5_Witness ==
  /\ op \in DirectOps \cup LegacyOps /\ pc = "done"
  /\ Declined(signAnswer) /\ outcome.kind = "thrown"

\* C6 (as claimed): a declined signing request surfaces to the caller as an
\* error of the distinct kind SigningDeclined.
C6_DeclineSurfacesAsSigningDeclined ==
  (pc = "done" /\ Declined(signAnswer)) =>
    (outcome.kind = "thrown" /\ outcome.code = "SIGNING_DECLINED")

\* C7: prepareTransaction applied to a simulation result that carries an
\* error throws PREPARE_FAILED and produces no envelope; and no operation
\* whose simulation carries an error ever ends with a prepared envelope.
C7_PrepareRejectsErrorResult ==
  simResult.error # "NONE" =>
    /\ op = "prepareTransaction" => outcome = Thrown("PREPARE_FAILED")
    /\ ~outcome.xdr
    /\ "Prepared" \notin Range(stages)
    /\ envelope = NoEnvelope

\* C7 witness: prepareTransaction ran on the result of a simulation that the
\* contract rejected.
C7_Witness ==
  /\ op = "prepareTransaction" /\ simResult.error = "SIMULATION_ERROR"
  /\ calls.prepare = 1 /\ outcome.kind = "thrown"

\* C8 (as claimed): a mutating domain method simulates and returns; it never
\* calls the wallet's signTransaction and never calls send-transaction.
C8_DomainMethodsNeverSignOrSend ==
  op \in MutatingDomainOps => (calls.sign = 0 /\ calls.send = 0)

\* C9 (as claimed): a domain operation that has submitted a transaction went
\* through Built, Simulated, Prepared and Submitted, in this order.
C9_SubmittedOnlyAfterSimulateAndPrepare ==
  (op \in MutatingDomainOps /\ calls.send > 0) =>
    \E i, j, k, l \in 1..Len(stages) :
      /\ i < j /\ j < k /\ k < l
      /\ stages[i] = "Built" /\ stages[j] = "Simulated"
      /\ stages[k] = "Prepared" /\ stages[l] = "Submitted"

\* C10 (as claimed): when the polled status is SUCCESS the operation ends
\* successful, whether or not the return value is present or decodes; an
\* absent or undecodable value leaves the result absent.
C10_SuccessStandsWithoutPayload ==
  (/\ pc = "done" /\ lastStatus = "SUCCESS"
   /\ op \in {"executeTransaction"} \cup LegacyOps)
  => /\ outcome.kind = "returned" /\ outcome.successful
     /\ (net.retval = NoVal \/ ScValThrows(net.retval)) => outcome.result = Undefined

\* C11: when the status query answers FAILED, executeTransaction returns an
\* unsuccessful result whose error is TRANSACTION_FAILED, which carries the
\* transaction hash and whose error data is the status response as received.
C11_FailedKeepsHashAndRawResult ==
  (op = "executeTransaction" /\ pc = "done" /\ lastStatus = "FAILED") =>
    /\ outcome.kind = "returned" /\ ~outcome.successful
    /\ outcome.code = "TRANSACTION_FAILED"
    /\ outcome.hash = sendResponse.hash /\ outcome.hash = TxHash
    /\ outcome.data = ErrorData("txResponse", "FAILED")

\* C11 witness: an execute whose second status answer was FAILED has returned.
C11_Witness ==
  /\ op = "executeTransaction" /\ pc = "done"
  /\ net.script = <<"PENDING", "FAILED">> /\ lastStatus = "FAILED"
  /\ outcome.code = "TRANSACTION_FAILED"

\* C12 (as claimed): executeTransaction reports TRANSACTION_FAILED only when
\* the terminal status is FAILED; a NOT_FOUND status is classified otherwise.
C12_TransactionFailedOnlyOnFailed ==
  (op = "executeTransaction" /\ pc = "done" /\ outcome.code = "TRANSACTION_FAILED")
    => lastStatus = "FAILED"

\* C13: when send-transaction answered with a status other than PENDING,
\* executeTransaction has returned an unsuccessful result whose error is
\* SUBMISSION_FAILED, and it has issued no status query.
C13_NotPendingMeansSubmissionFailed ==
  (/\ op = "executeTransaction"
   /\ sendResponse.status \notin {Undefined, "PENDING"}) =>
    /\ pc = "done"
    /\ outcome.kind = "returned" /\ ~outcome.successful
    /\ outcome.code = "SUBMISSION_FAILED"
    /\ calls.get = 0 /\ calls.send = 1
    /\ lastStatus = Undefined

\* C13 witness: send-transaction answered TRY_AGAIN_LATER and execute returned.
C13_Witness ==
  /\ op = "executeTransaction" /\ pc = "done"
  /\ sendResponse.status = "TRY_AGAIN_LATER"
  /\ outcome.code = "SUBMISSION_FAILED" /\ calls.get = 0

\* C14: when simulate-transaction answers with a contract-level error,
\* simulateTransaction returns a SimulationResponse whose error is
\* SIMULATION_ERROR and whose error data is that payload as it was received.
C14_SimulationErrorCarriesPayload ==
  (op = "simulateTransaction" /\ pc = "done" /\ net.sim \in ContractErrors) =>
    /\ outcome.kind = "returned" /\ ~outcome.successful
    /\ outcome.code = "SIMULATION_ERROR"
    /\ outcome.data = ErrorData("simResponse.error", net.sim)
    /\ simResult.data.val = net.sim

\* C14 witness: a simulation the contract rejected has returned its error.
C14_Witness ==
  /\ op = "simulateTransaction" /\ pc = "done"
  /\ net.sim = "Error(Contract, #1)" /\ outcome.code = "SIMULATION_ERROR"

\* C15: every step of simulateTransaction leaves the ledger and the client
\* alone: it has issued at most one simulate-transaction call and no send-
\* transaction, status query or signing request, and the client's fields
\* are what they were.
C15_SimulateNeverMutates ==
  [][op' = "simulateTransaction" =>
       /\ calls'.send = 0 /\ calls'.get = 0 /\ calls'.sign = 0
       /\ calls'.sim <= 1
       /\ client' = client]_vars

\* C15 witness: a simulation was issued and answered without error.
C15_Witness ==
  /\ op = "simulateTransaction" /\ pc = "done"
  /\ calls.sim = 1 /\ net.sim = "OK" /\ outcome.successful

\* C16: callMethod, called directly or by a MarketplaceOperations query, runs
\* one simulation and nothing else of the pipeline: no envelope is prepared,
\* no signature requested and nothing submitted, on every path; a simulation
\* error is thrown as it is, a missing result entry throws NO_RESULT, and a
\* result is decoded and returned.
C16_CallMethodSimulatesOnly ==
  op \in QueryOps =>
    /\ calls.sim <= 1 /\ calls.prepare = 0 /\ calls.sign = 0
    /\ calls.send = 0 /\ calls.get = 0
    /\ Range(stages) \subseteq {"Built", "Simulated"}
    /\ envelope = NoEnvelope /\ ~outcome.xdr
    /\ (op = "Q.callMethod" /\ pc = "done") =>
         /\ simResult.error # "NONE" =>
              (outcome.kind = "thrown" /\ outcome.code = simResult.error)
         /\ (simResult.error = "NONE" /\ ~simResult.hasResult) =>
              (outcome.kind = "thrown" /\ outcome.code = "NO_RESULT")
         /\ (simResult.hasResult /\ ~ScValThrows(net.qval)) =>
              (outcome.kind = "returned" /\ outcome.result = scValToNative(net.qval))

\* C16 witness: callMethod returned the decoded value of a simulation result.
C16_Witness ==
  /\ op = "Q.callMethod" /\ pc = "done"
  /\ calls.sim = 1 /\ net.sim = "OK"
  /\ outcome.kind = "returned" /\ outcome.result = "L1"

\* The domain operation methods built on the ContractClient.
ClientDomainOps == TokenOps \cup MarketOps \cup (QueryOps \ {"Q.callMethod"})

\* C17 (as claimed): when the ContractClient raised an error inside a domain
\* operation method, the error the method throws has the code the client
\* gave it.
C17_DomainOpsKeepErrorKind ==
  (op \in ClientDomainOps /\ pc = "done" /\ simResult.error # "NONE") =>
    (outcome.kind = "thrown" /\ outcome.code = simResult.error)

\* The error codes of the code that stand for a kind of the taxonomy, read
\* generously (SIMULATION_FAILED counted as a simulation error), and the
\* names the kinds without a code of their own would carry.
TaxonomyCodes ==
  {"SIMULATION_ERROR", "SIMULATION_FAILED", "PREPARE_FAILED", "SUBMISSION_FAILED",
   "TRANSACTION_FAILED", "INVALID_RESPONSE", "SIGNING_DECLINED", "TIMEOUT_REJECTED",
   "CANCELLED", "ENCODING_ERROR", "DECODING_ERROR"}

\* An invocation ended in a failure: it threw, or returned a result that
\* carries an error.
Failed(o) == o.kind = "thrown" \/ (o.kind = "returned" /\ ~o.successful /\ o.code # "NONE")

\* C18 (as claimed): every failure an operation ends with carries a code
\* that is one of the kinds of the closed taxonomy.
C18_FailuresAreInTaxonomy ==
  (pc = "done" /\ Failed(outcome)) => outcome.code \in TaxonomyCodes

C20_PreparedFeeAndClosedWindow ==
  (/\ op \in {"prepareTransaction"} \cup MarketOps
   /\ pc = "done" /\ outcome.xdr
   /\ options.timeout # 0)
  => LET timeout == IF options.timeout = UndefinedNum THEN TX_TIMEOUT ELSE options.timeout
     IN /\ envelope.fee = (IF options.fee = UndefinedNum THEN DEFAULT_FEE ELSE options.fee)
        /\ envelope.minTime = now
        /\ envelope.maxTime = now + timeout

\* C21 (as claimed): an envelope prepared for a caller who asked for no
\* expiry (a timeout of TimeoutInfinite) has no upper time bound.
C21_NoExpiryGivesOpenWindow ==
  (/\ op \in {"prepareTransaction"} \cup MarketOps
   /\ pc = "done" /\ outcome.xdr
   /\ options.timeout = TimeoutInfinite)
  => envelope.maxTime = TimeoutInfinite

\* What executeTransaction returns, as a function of the signed envelope and
\* of the answers of the network alone.
ExecOutcomeOf(env, send, network) ==
  IF ~env.wellFormed THEN ExecCatch("fromXDR")
  ELSE IF send.status = Undefined THEN ExecCatch("sendTransaction")
  ELSE IF send.status # "PENDING" THEN ExecSubmissionFailed(send.status)
  ELSE LET j == FirstNonPending(network.script) IN
       IF network.script[j] = "THROW"
         THEN ExecCatch("getTransaction")
         ELSE ExecClassify(network.script[j], send.hash, network.retval)

\* C22: on a client object that went through any earlier simulate, prepare
\* and execute calls, executeTransaction of a signed envelope sends it exactly
\* when it parses, and ends with the outcome that the envelope and the
\* answers of the network determine, whatever method ran last on the client.
C22_ExecuteResumesFromEnvelope ==
  op = "executeTransaction" =>
    /\ (calls.send = 1) = envelope.wellFormed
    /\ pc = "done" => outcome = ExecOutcomeOf(envelope, sendResponse, net)

\* C22 witness: an envelope was executed successfully on a client whose last
\* completed call was prepareTransaction.
C22_Witness ==
  /\ op = "executeTransaction" /\ pc = "done"
  /\ earlier = "prepareTransaction"
  /\ outcome.successful /\ outcome.result = "T1"

\* C23 (as claimed): whatever other flows do meanwhile, a running invocation
\* talks to the endpoint of the network it signs for.
C23_InvocationUsesItsOwnNetwork ==
  (op \in DirectOps /\ pc # "idle") =>
    profile.rpcUrl = NetworkRpcUrl(profile.networkId)

\* C24 (as claimed): every status query is issued one poll interval after
\* the submission or the previous query, so after n queries n intervals
\* have passed.
C24_EveryQueryAfterOneInterval ==
  (op \in {"executeTransaction", "submitTransaction"} \cup LegacyOps /\ calls.get > 0)
    => now = calls.get * POLL_INTERVAL

\* C29 (as claimed): when send-transaction answered PENDING, the outcome
\* executeTransaction returns carries the transaction hash.
C29_AcceptedOutcomeCarriesHash ==
  (op = "executeTransaction" /\ pc = "done" /\ sendResponse.status = "PENDING")
    => outcome.hash = TxHash

\* C30: simulateTransaction and executeTransaction end by returning a value,
\* never by throwing; an exception raised while parsing, sending or polling
\* becomes a returned EXECUTION_FAILED error whose data is that exception,
\* and one raised while building or simulating a returned SIMULATION_FAILED
\* error that carries the exception.
C30_SimulateAndExecuteNeverThrow ==
  /\ (op \in {"simulateTransaction", "executeTransaction"} /\ pc = "done") =>
       outcome.kind = "returned"
  /\ (op = "executeTransaction" /\ pc = "done") =>
       LET cause == IF ~envelope.wellFormed THEN "fromXDR"
                    ELSE IF sendResponse.status = Undefined THEN "sendTransaction"
                    ELSE IF calls.get > 0 /\ NetGet(calls.get) = "THROW" THEN "getTransaction"
                    ELSE "none"
       IN cause # "none" =>
            /\ ~outcome.successful /\ outcome.code = "EXECUTION_FAILED"
            /\ outcome.data = ErrorData("exception", cause)
  /\ (op = "simulateTransaction" /\ pc = "done" /\ (calls.sim = 0 \/ net.sim = "THROW")) =>
       /\ ~outcome.successful /\ outcome.code = "SIMULATION_FAILED"
       /\ outcome.data.kind = "exception"

\* C30 witness: a status query threw and executeTransaction returned.
C30_Witness ==
  /\ op = "executeTransaction" /\ pc = "done"
  /\ net.script = <<"PENDING", "THROW">> /\ calls.get = 2
  /\ outcome.code = "EXECUTION_FAILED"

\* The amount times 10^7 with the fraction dropped, and the hi/lo pair (hi a
\* signed and lo an unsigned 64-bit word) of a 128-bit integer.
TruncateScaled(x) ==
  Big(x.words * STROOPS,
      IF x.fine >= 0 THEN x.fine \div FinePerStroop ELSE -((-x.fine) \div FinePerStroop))
Split128(v) ==
  IF v.u >= 0 THEN [hi |-> v.w, lo |-> Big(0, v.u)]
              ELSE [hi |-> v.w - 1, lo |-> Big(1, v.u)]
OrdinaryPrice(d) == d.words = 0 /\ d.fine >= 0

\* C25 (as claimed): every implementation of the buy operation calls
\* buy_tokens with (caller address, token id, amount as a whole-unit i128,
\* maximum price as an i128 scaled by 10^7), in this order.
C25_BuyTokensArgumentOrder ==
  (codec.method = "buy_tokens" /\ OrdinaryPrice(codec.in.price)) =>
    codec.args = <<AddressToScVal(codec.in.caller), scvString(codec.in.tokenId),
                   scvI128(0, Big(0, codec.in.amount)),
                   scvI128(0, TruncateScaled(codec.in.price))>>

\* C26 (as claimed): the listing operations send the price as the i128 that
\* equals the decimal price times 10^7 (2.5000000 as 25000000).
C26_ListPriceIsScaledI128 ==
  (codec.method \in {"list_token", "list_tokens"} /\ OrdinaryPrice(codec.in.price)) =>
    codec.args[Len(codec.args)] = scvI128(0, TruncateScaled(codec.in.price))

\* C27 (as claimed): a monetary argument is the hi/lo pair of exactly the
\* amount times 10^7 truncated toward zero, for negative amounts and for
\* amounts beyond 64 bits too.
C27_AmountIsExactHiLoPair ==
  codec.method = "create_token" =>
    /\ codec.args[4].type = "scvI128"
    /\ [hi |-> codec.args[4].hi, lo |-> codec.args[4].lo]
         = Split128(TruncateScaled(codec.in.price))

\* C31: a result returned by executeTransaction has successful true exactly
\* when it carries no error, and a successful one is returned only after a
\* status query of this call answered SUCCESS.
C31_ExecuteResultWellFormed ==
  (op = "executeTransaction" /\ pc = "done") =>
    /\ outcome.successful <=> (outcome.code = "NONE" /\ outcome.data = NoData)
    /\ outcome.successful =>
         /\ calls.get > 0
         /\ NetGet(calls.get) = "SUCCESS"
         /\ lastStatus = "SUCCESS"

\* C31 witness: a successful result, after a first query that answered
\* PENDING.
C31_Witness ==
  /\ op = "executeTransaction" /\ pc = "done"
  /\ outcome.successful /\ calls.get = 2
  /\ net.script[1] = "PENDING"

\* C32: in listToken, buyToken, cancelListing and updateListingPrice the
\* envelope is prepared only after the simulation returned without an error;
\* when the simulation returned an error the method throws that error, with
\* its code and data, and neither prepares nor returns an envelope.
C32_PrepareOnlyAfterCleanSimulation ==
  (op \in MarketOps /\ pc = "done") =>
    /\ (calls.prepare > 0 \/ "Prepared" \in Range(stages) \/ outcome.xdr) =>
         (calls.sim = 1 /\ simResult.error = "NONE")
    /\ simResult.error # "NONE" =>
         /\ outcome.kind = "thrown"
         /\ outcome.code = simResult.error
         /\ outcome.data = simResult.data
         /\ envelope = NoEnvelope

\* C32 witness: the contract rejected the simulated call and the method
\* threw the simulation's error.
C32_Witness ==
  /\ op \in MarketOps /\ pc = "done"
  /\ net.sim \in ContractErrors
  /\ outcome.kind = "thrown" /\ outcome.code = "SIMULATION_ERROR"

\* C33 (as claimed): after any sequence of initSorobanClient calls, the
\* network passphrase an operation builds and signs its transaction with
\* names the network of the endpoint the transaction is sent to.
C33_PassphraseMatchesEndpoint ==
  (calls.sign > 0 \/ calls.send > 0) =>
    \E network \in {"TESTNET", "PUBLIC"} :
      /\ profile.networkId = network
      /\ profile.rpcUrl = NetworkRpcUrl(network)

\* C34 (as claimed): for the same send and status answers submitTransaction
\* issues as many status queries as executeTransaction does (up to the first
\* answer that is not PENDING) and reports a success exactly when
\* executeTransaction does.
C34_SubmitAgreesWithExecute ==
  (/\ op = "submitTransaction" /\ pc = "done"
   /\ sendResponse.status = "PENDING"
   /\ FirstNonPending(net.script) > 0) =>
    /\ calls.get = FirstNonPending(net.script)
    /\ outcome.successful = ExecOutcomeOf(envelope, sendResponse, net).successful

\* C35: a collection query whose decoded value is an array returns one
\* Listing per element, in the array's order, when every element is an
\* object; when some element is not, it throws INVALID_LISTING_FORMAT and
\* returns no listing at all.
C35_OneListingPerElementOrNone ==
  (/\ op \in CollectionQueryOps /\ pc = "done"
   /\ simResult.error = "NONE" /\ simResult.hasResult
   /\ IsArray(net.qval)) =>
    IF \A i \in 1..Len(net.qval.elems) : net.qval.elems[i] = "object"
      THEN /\ outcome.kind = "returned"
           /\ Len(outcome.listings) = Len(net.qval.ids)
           /\ \A i \in 1..Len(net.qval.ids) : outcome.listings[i].id = net.qval.ids[i]
      ELSE /\ outcome.kind = "thrown"
           /\ outcome.code = "INVALID_LISTING_FORMAT"
           /\ outcome.listings = <<>>

\* C35 witness: the array [L1, 7] made the query throw, though its first
\* element is a listing.
C35_Witness ==
  /\ op = "Q.getAllListings" /\ pc = "done"
  /\ net.sim = "OK" /\ net.qval.ids = <<"L1", "7">>
  /\ outcome.code = "INVALID_LISTING_FORMAT"

\* The calls that run connectWallet or checkWalletConnection.
WalletDataKinds == {"connect", "requestPermission", "checkWalletConnection"}
BothYes(x) == x.connected = "yes" /\ x.allowed = "yes"

\* C38: connectWallet and checkWalletConnection ask for the public key only
\* after isConnected and isAllowed both answered true to that call; a call to
\* which one of them answered otherwise returns an empty publicKey and has
\* not asked for the key.
C38_KeyRequestedOnlyWhenConnectedAndAllowed ==
  /\ \A s \in Slots :
       (wallet.flows[s].kind \in WalletDataKinds /\ wallet.flows[s].keyCalls > 0) =>
         BothYes(wallet.flows[s])
  /\ wallet.last.kind \in WalletDataKinds =>
       /\ wallet.last.keyCalls > 0 => BothYes(wallet.last)
       /\ (wallet.last.ended = "returned" /\ ~BothYes(wallet.last)) =>
            (wallet.last.publicKey = "" /\ wallet.last.keyCalls = 0)

\* C38 witness: checkWalletConnection found the wallet connected but the
\* site not allowed, and returned without a key.
C38_Witness ==
  /\ wallet.last.kind = "checkWalletConnection" /\ wallet.last.ended = "returned"
  /\ wallet.last.connected = "yes" /\ wallet.last.allowed = "no"
  /\ wallet.last.publicKey = ""

\* C36 (as claimed): the provider exposes a non-empty publicKey only while
\* its isConnected and isAllowed are both true.
C36_KeyExposedOnlyWhileConnectedAndAllowed ==
  wallet.publicKey \notin {"null", ""} => (wallet.isConnected /\ wallet.isAllowed)

\* C37 (as claimed): isConnecting is true whenever some connect call is in
\* flight, and false when none is.
ConnectInFlight ==
  \E s \in Slots :
    /\ wallet.flows[s].kind \in ProviderKinds
    /\ wallet.flows[s].pc \in {"isConnected", "isAllowed", "getPublicKey"}
C37_IsConnectingWhileConnectInFlight == wallet.isConnecting <=> ConnectInFlight

====
